---- MODULE Spec2Model ----
(***************************************************************************)
(* A model of the two allocators of the repository:                        *)
(*   src/src/mm.c       one explicit free list (root)                      *)
(*   src/src/mm_work.c  eight segregated free lists (roots[0..7])          *)
(* The heap is byte-addressed memory.  Only the bytes that were written    *)
(* are kept (mem is a function on the written addresses); any other byte   *)
(* reads as what the region provider left there.  Tags are 4-byte little   *)
(* endian words, list links 8-byte pointers, exactly as the macros of the  *)
(* source read and write them.                                             *)
(*                                                                         *)
(* A C function is an operator from the machine (the record Cur) to the    *)
(* machine after it; its statements are applied innermost first, and a     *)
(* value a statement reads is read from the machine that statement sees.   *)
(***************************************************************************)
EXTENDS Integers, Sequences, FiniteSets, TLC

VARIABLES
  mem,         \* written bytes: address -> 0..255
  brk,         \* the provider's break: the region is [env.base, brk)
  heap_listp,  \* static char *heap_listp
  root,        \* mm.c: static char *root
  roots,       \* mm_work.c: static void *roots[SEG_SIZE] of get_root
  start_root,  \* mm_work.c: static char *start_root
  env,         \* what the provider fixes: base, capacity, memory around the heap
  live,        \* the caller's live pointers: p -> [size, plen]
  last,        \* what the last API call was and what it returned
  calls        \* number of API calls made

vars == <<mem, brk, heap_listp, root, roots, start_root, env, live, last, calls>>

(***************************************************************************)
(* Program constants                                                       *)
(***************************************************************************)
WSIZE == 4
DSIZE == 8
QSIZE == 16
OVERHEAD == 8
CHUNKSIZE == 2048
SEG_SIZE == 8
\* CHUNKSIZE of mm_work.c
CHUNKSIZE_seg == 4096
NULL == 0

(***************************************************************************)
(* Bounds of the model                                                     *)
(***************************************************************************)
MaxCalls == 4
MaxLive == 3
\* the caller writes its pattern into requests of at most MaxPat bytes
MaxPat == 48

\* request sizes the caller uses
Sizes == {1, 17, 448, 2000}
\* sizes the caller passes to resize
ReSizes == {24, 40, 2040}
\* calls of the allocate/release sequences
MaxPairCalls == 6
\* calls made to mm_work.c
MaxSegCalls == 4
\* request sizes passed to mm_work.c
SegSizes == {1, 40, 3000}
\* sizes passed to mm_realloc of mm_work.c
SegReSizes == {0, 3000}
\* request sizes of the allocate/release sequences
PairSizes == {1, 448, 2000}

\* The provider and the machine: region base (8-aligned), capacity in
\* bytes, upper half of every heap address, the word just below the region,
\* the byte that unwritten memory holds, and whether a misaligned word
\* access traps (strict) or is performed.
Envs ==
  [base : {4096}, cap : {4128}, baseHi : {0}, lowWord : {0}, fill : {0},
   strict : {FALSE}]

\* the providers of the runs of mm_work.c: heap addresses with upper half 0
\* and with upper half 0x7f12, machines that trap and that do not
SegEnvs ==
  [base : {4096}, cap : {8336}, baseHi : {0, 32530}, lowWord : {0}, fill : {0},
   strict : BOOLEAN]

(***************************************************************************)
(* Bytes, words and pointers                                               *)
(***************************************************************************)
Pow256(i) == CASE i = 0 -> 1 [] i = 1 -> 256 [] i = 2 -> 65536 [] i = 3 -> 16777216

Byte(v, i) == (v \div Pow256(i)) % 256

\* the byte at address a: written, or the provider's
Rd(m, a) ==
  IF a \in DOMAIN m THEN m[a]
  ELSE IF a >= env.base - 4 /\ a < env.base THEN Byte(env.lowWord, a - (env.base - 4))
  ELSE env.fill

\* what a word of 2^31 or more reads as: a size or an address this big
\* leads outside the memory of the process whatever its exact value
Huge == 268435456

\* GET(p): *(unsigned int *)(p); of a word of 2^31 or more, Huge and the
\* three low bits
GET(m, p) ==
  IF Rd(m, p + 3) >= 128 THEN Huge + (Rd(m, p) % 8)
  ELSE Rd(m, p) + 256 * Rd(m, p + 1) + 65536 * Rd(m, p + 2) + 16777216 * Rd(m, p + 3)

\* PUT(p, val): *(unsigned int *)(p) = (val)
PUT(m, p, val) == [x \in p .. p + 3 |-> Byte(val, x - p)] @@ m

PACK(size, alloc) == size + alloc

\* w & ~0x7 and w & 0x1
SizeOf(w) == w - (w % 8)
AllocOf(w) == w % 2

GET_SIZE(m, p) == SizeOf(GET(m, p))
GET_ALLOC(m, p) == AllocOf(GET(m, p))

HDRP(bp) == bp - WSIZE
FTRP(m, bp) == bp + GET_SIZE(m, HDRP(bp)) - DSIZE
NEXT_BLKP(m, bp) == bp + GET_SIZE(m, bp - WSIZE)
PREV_BLKP(m, bp) == bp - GET_SIZE(m, bp - DSIZE)

\* an address that is no address of the region: what a pointer whose upper
\* half is not the heap's decodes to
Wild == -1024

\* the pointer whose halves are lo and hi; the heap's addresses share hi
Ptr(lo, hi) ==
  IF lo = 0 /\ hi = 0 THEN NULL ELSE IF hi = env.baseHi THEN lo ELSE Wild

PtrLo(val) == IF val = Wild THEN 0 ELSE val
PtrHi(val) ==
  IF val = NULL THEN 0 ELSE IF val = Wild THEN env.baseHi + 1 ELSE env.baseHi

\* *(char **)(p)
GET_8add(m, p) == Ptr(GET(m, p), GET(m, p + 4))

\* *(char **)(p) = val
PUT_8add(m, p, val) == PUT(PUT(m, p, PtrLo(val)), p + 4, PtrHi(val))

NEXT(m, bp) == GET_8add(m, bp)
PREV(m, bp) == GET_8add(m, bp + DSIZE)

(***************************************************************************)
(* The machine: the allocator's memory and globals during one API call,    *)
(* with what the call has done so far (ret and the fields after it).       *)
(***************************************************************************)
Cur ==
  [mem |-> mem, brk |-> brk, heap_listp |-> heap_listp, root |-> root,
   roots |-> roots, start_root |-> start_root,
   ret |-> NULL,        \* the value the function returns
   oob |-> FALSE,       \* a word outside [low, high) was read or written
   fault |-> FALSE,     \* an address that is no memory was used: the process ends
   hung |-> FALSE,      \* a list walk entered a cycle: the call never returns
   sbrks |-> 0,         \* calls of mem_sbrk
   sbrkFail |-> FALSE,  \* a call of mem_sbrk failed
   path |-> "none",     \* the branch mm_realloc took
   fit |-> FALSE,       \* mm_malloc: find_fit found a block
   asize |-> 0,         \* mm_malloc: the adjusted size
   csize |-> 0,         \* place: the size of the block it was given
   zptr |-> NULL,       \* mm_calloc: where bzero wrote
   zlen |-> 0]          \* mm_calloc: how many bytes bzero wrote

InRegion(s, p, n) == p >= env.base /\ p + n <= s.brk

\* the n bytes at p are memory of the process: the provider's array and the
\* word below it
Mapped(p, n) == p >= env.base - WSIZE /\ p + n <= env.base + env.cap

\* a word (or pointer) access at p that the machine does not perform:
\* *(unsigned int *)(p) and *(char **)(p) of a misaligned p are undefined
Traps(p, n) == env.strict /\ p % (IF n % DSIZE = 0 THEN DSIZE ELSE WSIZE) # 0

\* the call uses the n bytes at p, byte by byte
TouchBytes(s, p, n) ==
  [s EXCEPT !.oob = @ \/ ~InRegion(s, p, n), !.fault = @ \/ ~Mapped(p, n)]

\* the call uses the n bytes at p as words or pointers
Touch(s, p, n) ==
  [s EXCEPT !.oob = @ \/ ~InRegion(s, p, n),
            !.fault = @ \/ ~Mapped(p, n) \/ Traps(p, n)]

sPUT(s, p, val) ==
  [Touch(s, p, 4) EXCEPT !.mem = IF Mapped(p, 4) THEN PUT(@, p, val) ELSE @]

\* NEXT(bp) = val
SetNEXT(s, bp, val) ==
  [Touch(s, bp, 8) EXCEPT !.mem = IF Mapped(bp, 8) THEN PUT_8add(@, bp, val) ELSE @]

\* PREV(bp) = val
SetPREV(s, bp, val) ==
  [Touch(s, bp + DSIZE, 8) EXCEPT
     !.mem = IF Mapped(bp + DSIZE, 8) THEN PUT_8add(@, bp + DSIZE, val) ELSE @]

\* the call has ended without returning
Stopped(s) == s.hung \/ s.fault

\* PUT(HDRP(bp), val); PUT(FTRP(bp), val): the footer is found by the new header
PutHeader(s, bp, val) == sPUT(s, HDRP(bp), val)
PutFooter(s, bp, val) == sPUT(s, FTRP(s.mem, bp), val)
PutTags(s, bp, val) == PutFooter(PutHeader(s, bp, val), bp, val)

Returning(s, val) == [s EXCEPT !.ret = val]

(***************************************************************************)
(* The region provider (memlib): mem_sbrk                                  *)
(***************************************************************************)
SbrkFailed == -1

mem_sbrk(s, incr) ==
  IF s.brk + incr > env.base + env.cap
  THEN [s EXCEPT !.ret = SbrkFailed, !.sbrks = @ + 1, !.sbrkFail = TRUE]
  ELSE [s EXCEPT !.ret = s.brk, !.brk = @ + incr, !.sbrks = @ + 1]

(***************************************************************************)
(* mm.c: helper functions                                                  *)
(***************************************************************************)
\* if (PREV(bp)) NEXT(PREV(bp)) = NEXT(bp); else root = NEXT(bp);
unlink_prev(s, prev, next) ==
  IF prev # NULL THEN SetNEXT(s, prev, next) ELSE [s EXCEPT !.root = next]

\* an unlink that leaves the prev link of the next node as it was
unlink_forward(s, next, prev) == s

\* if (NEXT(bp)) PREV(NEXT(bp)) = PREV(bp);
unlink_next(s, next, prev) == IF next # NULL THEN SetPREV(s, next, prev) ELSE s

unlink_second(s, bp) == unlink_next(s, NEXT(s.mem, bp), PREV(s.mem, bp))

\* an mm_unlink that leaves the block in the list
unlink_none(s, bp) == s

mm_unlink(s, bp) ==
  unlink_second(unlink_prev(Touch(s, bp, 16), PREV(s.mem, bp), NEXT(s.mem, bp)), bp)

\* PREV(root) = bp; root = bp;
set_root(s, bp) == [SetPREV(s, s.root, bp) EXCEPT !.root = bp]

\* NEXT(bp) = root; PREV(bp) = NULL; PREV(root) = bp; root = bp;
push_front(s, bp) == set_root(SetPREV(SetNEXT(s, bp, s.root), bp, NULL), bp)

\* coalesce, Case 3: PUT(FTRP(bp), ..); PUT(HDRP(PREV_BLKP(bp)), ..);
PutHeaderOfPrev(s, bp, val) == sPUT(s, HDRP(PREV_BLKP(s.mem, bp)), val)
\* coalesce, Case 4: mm_unlink(NEXT_BLKP(bp)); .. PUT(FTRP(NEXT_BLKP(bp)), ..);
UnlinkNextBlock(s, bp) == mm_unlink(s, NEXT_BLKP(s.mem, bp))
PutFooterOfNext(s, bp, val) == sPUT(s, FTRP(s.mem, NEXT_BLKP(s.mem, bp)), val)

\* a coalesce that merges nothing
coalesce_apart(s, bp, prevbp, nextbp, prev_alloc, next_alloc, size) ==
  Returning(push_front(s, bp), bp)

coalesce_case(s, bp, prevbp, nextbp, prev_alloc, next_alloc, size) ==
  IF prev_alloc = 1 /\ next_alloc = 1 THEN
    Returning(push_front(s, bp), bp)
  ELSE IF prev_alloc = 1 /\ next_alloc = 0 THEN
    Returning(push_front(
      PutTags(mm_unlink(s, nextbp), bp,
              PACK(size + GET_SIZE(s.mem, HDRP(nextbp)), 0)), bp), bp)
  ELSE IF prev_alloc = 0 /\ next_alloc = 1 THEN
    Returning(push_front(
      PutHeaderOfPrev(
        PutFooter(mm_unlink(s, prevbp), bp,
                  PACK(size + GET_SIZE(s.mem, HDRP(prevbp)), 0)),
        bp, PACK(size + GET_SIZE(s.mem, HDRP(prevbp)), 0)), prevbp), prevbp)
  ELSE
    Returning(push_front(
      PutFooterOfNext(
        PutHeaderOfPrev(
          UnlinkNextBlock(mm_unlink(Touch(s, FTRP(s.mem, nextbp), 4), prevbp), bp),
          bp, PACK(size + GET_SIZE(s.mem, HDRP(prevbp))
                        + GET_SIZE(s.mem, FTRP(s.mem, nextbp)), 0)),
        bp, PACK(size + GET_SIZE(s.mem, HDRP(prevbp))
                      + GET_SIZE(s.mem, FTRP(s.mem, nextbp)), 0)), prevbp), prevbp)

coalesce_at(s, bp, prevbp, nextbp) ==
  coalesce_case(
    Touch(Touch(Touch(Touch(s, bp - DSIZE, 4), HDRP(prevbp), 4),
                FTRP(s.mem, prevbp), 4), HDRP(nextbp), 4),
    bp, prevbp, nextbp,
    GET_ALLOC(s.mem, FTRP(s.mem, prevbp)),
    GET_ALLOC(s.mem, HDRP(nextbp)),
    GET_SIZE(s.mem, HDRP(bp)))

coalesce(s, bp) == coalesce_at(s, bp, PREV_BLKP(s.mem, bp), NEXT_BLKP(s.mem, bp))

\* PUT(HDRP(NEXT_BLKP(bp)), PACK(0, 1))
PutEpilogue(s, bp) == sPUT(s, HDRP(NEXT_BLKP(s.mem, bp)), PACK(0, 1))

\* size = (words % 2) ? (words+1) * WSIZE : words * WSIZE
EvenBytes(words) == IF words % 2 = 1 THEN (words + 1) * WSIZE ELSE words * WSIZE

\* an extend_heap that does not look at what mem_sbrk returned
extended_unchecked(s, size) ==
  coalesce(PutEpilogue(PutTags(s, s.ret, PACK(size, 0)), s.ret), s.ret)

\* extend_heap once mem_sbrk has returned in s.ret
extended(s, size) ==
  IF s.ret < 0 THEN Returning(s, NULL)
  ELSE coalesce(PutEpilogue(PutTags(s, s.ret, PACK(size, 0)), s.ret), s.ret)

extend_heap(s, words) == extended(mem_sbrk(s, EvenBytes(words)), EvenBytes(words))

\* find_fit (FIRST_FIT): the loop from bp on; seen are the nodes visited
RECURSIVE find_fit_loop(_, _, _, _)
find_fit_loop(s, asize, bp, seen) ==
  IF bp = NULL THEN Returning(s, NULL)
  ELSE IF bp \in seen THEN [s EXCEPT !.hung = TRUE, !.ret = NULL]
  ELSE IF asize <= GET_SIZE(s.mem, HDRP(bp)) THEN Returning(Touch(s, HDRP(bp), 4), bp)
  ELSE find_fit_loop(Touch(Touch(s, HDRP(bp), 4), bp, 8), asize, NEXT(s.mem, bp),
                     seen \cup {bp})

find_fit(s, asize) == find_fit_loop(s, asize, s.root, {})

\* unsigned min_d = UINT_MAX, as GET reads a word of all ones
UINT_MAX == Huge + 7

\* find_fit (BEST_FIT): the loop from bp on; min_d is never assigned, so
\* it is UINT_MAX in every test
RECURSIVE find_best_loop(_, _, _, _, _)
find_best_loop(s, asize, bp, seen, min_bp) ==
  IF bp = NULL THEN Returning(s, min_bp)
  ELSE IF bp \in seen THEN [s EXCEPT !.hung = TRUE, !.ret = NULL]
  ELSE find_best_loop(Touch(Touch(s, HDRP(bp), 4), bp, 8), asize, NEXT(s.mem, bp),
                      seen \cup {bp},
                      IF asize <= GET_SIZE(s.mem, HDRP(bp))
                           /\ GET_SIZE(s.mem, HDRP(bp)) < UINT_MAX
                      THEN bp ELSE min_bp)

find_fit_best(s, asize) == find_best_loop(s, asize, s.root, {}, NULL)

\* (csize - asize) >= (QSIZE + OVERHEAD) on size_t: the difference wraps
Slack(csize, asize) == csize < asize \/ csize - asize >= QSIZE + OVERHEAD

\* place, the split: bp = NEXT_BLKP(bp); the remainder's tags; push it
place_rem(s, rem, remsize) == push_front(PutTags(s, rem, PACK(remsize, 0)), rem)
place_split(s, bp, remsize) == place_rem(s, NEXT_BLKP(s.mem, bp), remsize)

\* a place that never splits
place_whole(s, bp, asize, csize) == mm_unlink(PutTags(s, bp, PACK(csize, 1)), bp)

place_sized(s, bp, asize, csize) ==
  IF Slack(csize, asize)
  THEN place_split(mm_unlink(PutTags(s, bp, PACK(asize, 1)), bp), bp, csize - asize)
  ELSE mm_unlink(PutTags(s, bp, PACK(csize, 1)), bp)

place(s, bp, asize) ==
  place_sized([Touch(s, HDRP(bp), 4) EXCEPT !.csize = GET_SIZE(s.mem, HDRP(bp))],
              bp, asize, GET_SIZE(s.mem, HDRP(bp)))

(***************************************************************************)
(* mm.c: the API                                                           *)
(***************************************************************************)
\* PUT_8(p, val): *(unsigned long *)(p) = val, for a val below 2^32
sPUT_8(s, p, val) == sPUT(sPUT(s, p, val), p + 4, 0)

\* mm_init once mem_sbrk(4*DSIZE) has returned h
init_at(s, h) ==
  IF h = SbrkFailed THEN [s EXCEPT !.heap_listp = SbrkFailed]
  ELSE extend_heap(
         [sPUT(sPUT(sPUT(sPUT(sPUT_8(sPUT_8([s EXCEPT !.root = h], h, 0), h + DSIZE, 0),
                              h + WSIZE * 4, 0),
                         h + WSIZE * 5, PACK(OVERHEAD, 1)),
                    h + WSIZE * 6, PACK(OVERHEAD, 1)),
               h + WSIZE * 7, PACK(0, 1))
            EXCEPT !.heap_listp = h + WSIZE * 6],
         CHUNKSIZE \div WSIZE)

initialised(s) == init_at(s, s.ret)

mm_init(s) == initialised(mem_sbrk(s, 4 * DSIZE))

\* if (heap_listp == NULL) mm_init();
lazy_init(s) == IF s.heap_listp = NULL THEN mm_init(s) ELSE s

MAX(x, y) == IF x > y THEN x ELSE y

\* the adjusted block size of mm_malloc
AdjustedSize(size) ==
  IF size <= QSIZE THEN QSIZE + OVERHEAD
  ELSE IF size <= 449 /\ size >= 448 THEN 512
  ELSE DSIZE * ((size + OVERHEAD + (DSIZE - 1)) \div DSIZE)

\* mm_malloc after extend_heap
malloc_extended(s, asize) ==
  IF s.ret = NULL THEN s ELSE Returning(place(s, s.ret, asize), s.ret)

\* an mm_malloc that extends by one chunk whatever the request
malloc_chunked(s, asize) ==
  IF Stopped(s) THEN s
  ELSE IF s.ret # NULL THEN [place(s, s.ret, asize) EXCEPT !.ret = s.ret, !.fit = TRUE]
  ELSE malloc_extended(extend_heap(s, CHUNKSIZE \div WSIZE), asize)

\* mm_malloc after find_fit
malloc_found(s, asize) ==
  IF Stopped(s) THEN s
  ELSE IF s.ret # NULL THEN [place(s, s.ret, asize) EXCEPT !.ret = s.ret, !.fit = TRUE]
  ELSE malloc_extended(extend_heap(s, MAX(asize, CHUNKSIZE) \div WSIZE), asize)

malloc_sized(s, asize) == malloc_found([find_fit(s, asize) EXCEPT !.asize = asize], asize)

malloc_inited(s, size) ==
  IF size <= 0 THEN Returning(s, NULL) ELSE malloc_sized(s, AdjustedSize(size))

mm_malloc(s, size) == malloc_inited(lazy_init(s), size)

\* mm_malloc of the build with BEST_FIT
mm_malloc_best(s, size) ==
  IF size <= 0 THEN Returning(lazy_init(s), NULL)
  ELSE malloc_found([find_fit_best(lazy_init(s), AdjustedSize(size))
                       EXCEPT !.asize = AdjustedSize(size)],
                    AdjustedSize(size))

\* an mm_free that leaves the tags of the block as they are
free_unmarked(s, ptr, size) == coalesce(s, ptr)

free_sized(s, ptr, size) == coalesce(PutTags(s, ptr, PACK(size, 0)), ptr)

mm_free(s, ptr) ==
  IF ptr = NULL THEN s
  ELSE free_sized(lazy_init(Touch(s, HDRP(ptr), 4)), ptr, GET_SIZE(s.mem, HDRP(ptr)))

\* ALIGN(p): (p + 7) & ~0x7
ALIGN(p) == ((p + 7) \div 8) * 8

\* memcpy(dst, src, n): an unwritten source byte leaves the destination byte
\* unwritten
CopyBytes(m, dst, src, n) ==
  [x \in {dst + (a - src) : a \in (src .. src + n - 1) \cap DOMAIN m} |->
     m[src + (x - dst)]]
  @@ [x \in DOMAIN m \ (dst .. dst + n - 1) |-> m[x]]

memcpy(s, dst, src, n) ==
  IF n <= 0 THEN s
  ELSE [TouchBytes(TouchBytes(s, src, n), dst, n) EXCEPT
          !.mem = IF Mapped(src, n) /\ Mapped(dst, n) THEN CopyBytes(@, dst, src, n) ELSE @]

\* mm_realloc, Case 2, remaining space can form a block
realloc_split(s, oldptr, rsize, oldsize, nextsize) ==
  [place_split(PutTags(sPUT(s, FTRP(s.mem, oldptr), 0), oldptr, PACK(rsize + OVERHEAD, 1)),
               oldptr, nextsize - rsize + oldsize)
     EXCEPT !.ret = oldptr, !.path = "split"]

\* mm_realloc, Case 2, remaining space cannot form a block
realloc_absorb(s, oldptr, oldsize, nextsize) ==
  [PutTags(sPUT(s, FTRP(s.mem, oldptr), 0), oldptr, PACK(oldsize + nextsize, 1))
     EXCEPT !.ret = oldptr, !.path = "absorb"]

\* mm_realloc, Case 3, after mm_malloc
realloc_copy(s, oldptr, size, oldsize) ==
  IF Stopped(s) THEN s
  ELSE IF s.ret = NULL THEN [s EXCEPT !.ret = 0, !.path = "fail"]
  ELSE [mm_free(memcpy(s, s.ret, oldptr, IF size < oldsize THEN size ELSE oldsize), oldptr)
          EXCEPT !.ret = s.ret, !.path = "copy"]

\* mm_realloc, Cases 2 and 3: the header of the next block has been read
realloc_grow(s, oldptr, size, rsize, oldsize, nextptr, nextsize) ==
  IF GET_ALLOC(s.mem, HDRP(nextptr)) = 0 /\ nextsize >= rsize - oldsize THEN
    IF nextsize >= rsize - oldsize + QSIZE + OVERHEAD
    THEN realloc_split(mm_unlink(s, nextptr), oldptr, rsize, oldsize, nextsize)
    ELSE realloc_absorb(mm_unlink(s, nextptr), oldptr, oldsize, nextsize)
  ELSE realloc_copy(mm_malloc(s, size), oldptr, size, oldsize)

\* an mm_realloc that cuts the block down to the size asked for
realloc_trimmed(s, oldptr, size, rsize, oldsize, nextptr, nextsize) ==
  [PutTags(s, oldptr, PACK(rsize + OVERHEAD, 1)) EXCEPT !.ret = oldptr, !.path = "noop"]

realloc_sized(s, oldptr, size, rsize, oldsize, nextptr, nextsize) ==
  IF oldsize < 0 \/ rsize <= oldsize THEN
    \* Case 1 (a header size below 8 wraps oldsize to a huge value)
    [s EXCEPT !.ret = oldptr, !.path = "noop"]
  ELSE realloc_grow(Touch(s, HDRP(nextptr), 4), oldptr, size, rsize, oldsize,
                    nextptr, nextsize)

realloc_next(s, oldptr, size, nextptr) ==
  realloc_sized(Touch(s, HDRP(oldptr), 4), oldptr, size,
                IF size <= QSIZE THEN QSIZE ELSE ALIGN(size),
                GET_SIZE(s.mem, HDRP(oldptr)) - OVERHEAD,
                nextptr, GET_SIZE(s.mem, HDRP(nextptr)))

\* an mm_realloc without the two tests of its arguments
realloc_untested(s, oldptr, size) == realloc_next(s, oldptr, size, NEXT_BLKP(s.mem, oldptr))

mm_realloc(s, oldptr, size) ==
  IF size = 0 THEN [mm_free(s, oldptr) EXCEPT !.ret = NULL, !.path = "free"]
  ELSE IF oldptr = NULL THEN [mm_malloc(s, size) EXCEPT !.path = "malloc"]
  ELSE realloc_next(s, oldptr, size, NEXT_BLKP(s.mem, oldptr))

(***************************************************************************)
(* size_t: 64 bits, as 8 little-endian bytes, for the product of mm_calloc *)
(***************************************************************************)
\* the size_t value hi * 2^32 + lo, for lo and hi below 2^31
SizeT(hi, lo) ==
  <<Byte(lo, 0), Byte(lo, 1), Byte(lo, 2), Byte(lo, 3),
    Byte(hi, 0), Byte(hi, 1), Byte(hi, 2), Byte(hi, 3)>>

\* the sum of the byte products a[i] * b[k-i] of column k, from i on
RECURSIVE ColumnSum(_, _, _, _)
ColumnSum(a, b, k, i) ==
  IF i > k \/ i > 7 THEN 0
  ELSE (IF k - i <= 7 THEN a[i + 1] * b[k - i + 1] ELSE 0) + ColumnSum(a, b, k, i + 1)

\* the bytes k .. 15 of the full product a * b, carry coming in
RECURSIVE ProductDigits(_, _, _, _)
RECURSIVE ProductFrom(_, _, _, _)
ProductFrom(a, b, k, sum) == <<sum % 256>> \o ProductDigits(a, b, k + 1, sum \div 256)

ProductDigits(a, b, k, carry) ==
  IF k > 15 THEN << >> ELSE ProductFrom(a, b, k, ColumnSum(a, b, k, 0) + carry)

\* nmemb*size overflows size_t
Overflows(a, b) == SubSeq(ProductDigits(a, b, 0, 0), 9, 16) # <<0, 0, 0, 0, 0, 0, 0, 0>>

\* nmemb*size as the C expression computes it: modulo 2^64
Times(a, b) == SubSeq(ProductDigits(a, b, 0, 0), 1, 8)

\* a size_t below 2^31 as a number
Small(a) == a[4] < 128 /\ SubSeq(a, 5, 8) = <<0, 0, 0, 0>>
Num(a) == a[1] + 256 * a[2] + 65536 * a[3] + 16777216 * a[4]

\* a + n modulo 2^64, for an n below 256: the bytes from i on, carry c
RECURSIVE PlusFrom(_, _, _)
PlusFrom(a, i, c) ==
  IF i > 8 THEN << >>
  ELSE <<(a[i] + c) % 256>> \o PlusFrom(a, i + 1, (a[i] + c) \div 256)

Plus(a, n) == PlusFrom(a, 1, n)

\* DSIZE * (a / DSIZE)
Floor8(a) == [a EXCEPT ![1] = @ - (@ % DSIZE)]

\* the adjusted block size of mm_malloc, computed on size_t
AdjustedSizeT(a) ==
  IF Small(a) /\ Num(a) <= 449 THEN SizeT(0, AdjustedSize(Num(a)))
  ELSE Floor8(Plus(a, OVERHEAD + (DSIZE - 1)))

\* a size_t as a number; Huge stands for every value from Huge on, which
\* is more than any region holds
Saturated(a) == IF Small(a) /\ Num(a) < Huge THEN Num(a) ELSE Huge

\* mm_malloc of a size_t that may be as large as the type allows
mm_malloc_wide(s, a) ==
  IF a = SizeT(0, 0) THEN Returning(lazy_init(s), NULL)
  ELSE malloc_sized(lazy_init(s), Saturated(AdjustedSizeT(a)))

\* bzero(ptr, n)
bzero(s, ptr, n) ==
  IF n <= 0 THEN s
  ELSE [TouchBytes(s, ptr, n) EXCEPT
          !.mem = IF Mapped(ptr, n) THEN [x \in ptr .. ptr + n - 1 |-> 0] @@ @ ELSE @,
          !.zptr = ptr, !.zlen = n]

\* mm_calloc after mm_malloc
calloc_zero(s, t) == IF Stopped(s) THEN s ELSE Returning(bzero(s, s.ret, t), s.ret)

\* mm_calloc(nmemb, size), t the product nmemb*size as computed, below 2^31
calloc_sized(s, t) == calloc_zero(mm_malloc(lazy_init(s), t), t)

mm_calloc(s, nmemb, size) == calloc_sized(s, Num(Times(nmemb, size)))

(***************************************************************************)
(* mm_work.c: the segregated lists                                         *)
(***************************************************************************)
get_segid(asize) ==
  IF asize <= 32 THEN 0
  ELSE IF asize <= 64 THEN 1
  ELSE IF asize <= 128 THEN 2
  ELSE IF asize <= 256 THEN 3
  ELSE IF asize <= 512 THEN 4
  ELSE IF asize <= 1024 THEN 5
  ELSE IF asize <= 2048 THEN 6
  ELSE 7

\* get_root(segid, newroot) for its effect: a NULL newroot sets nothing
get_root(s, segid, newroot) ==
  IF newroot = NULL THEN s ELSE [s EXCEPT !.roots[segid] = newroot]

\* get_root(segid, NULL) for its value
get_rootd(s, segid) == s.roots[segid]

\* root_init: get_root(i, start_root+i*2*DSIZE) for every i
root_init(s) ==
  [s EXCEPT !.roots = [i \in 0 .. SEG_SIZE - 1 |-> s.start_root + i * 2 * DSIZE]]

\* if (PREV(bp)) NEXT(PREV(bp)) = NEXT(bp); else get_root(segid, NEXT(bp));
unlink_prev_seg(s, segid, prev, next) ==
  IF prev # NULL THEN SetNEXT(s, prev, next) ELSE get_root(s, segid, next)

\* if (NEXT(bp)) PREV(NEXT(bp)) = PREV(bp);
unlink_second_seg(s, bp) == unlink_next(s, NEXT(s.mem, bp), PREV(s.mem, bp))

\* mm_unlink: the class is that of the size the header of bp holds now
mm_unlink_seg(s, bp) ==
  unlink_second_seg(
    unlink_prev_seg(Touch(Touch(s, HDRP(bp), 4), bp, 16),
                    get_segid(GET_SIZE(s.mem, HDRP(bp))),
                    PREV(s.mem, bp), NEXT(s.mem, bp)), bp)

\* NEXT(bp) = get_root(segid, NULL); PREV(bp) = NULL;
\* PREV(get_root(segid, NULL)) = bp; get_root(segid, bp);
push_front_seg(s, bp, segid) ==
  get_root(SetPREV(SetPREV(SetNEXT(s, bp, get_rootd(s, segid)), bp, NULL),
                   get_rootd(s, segid), bp), segid, bp)

UnlinkNextBlock_seg(s, bp) == mm_unlink_seg(s, NEXT_BLKP(s.mem, bp))

coalesce_case_seg(s, bp, prevbp, nextbp, prev_alloc, next_alloc, size) ==
  IF prev_alloc = 1 /\ next_alloc = 1 THEN
    Returning(push_front_seg(s, bp, get_segid(size)), bp)
  ELSE IF prev_alloc = 1 /\ next_alloc = 0 THEN
    Returning(push_front_seg(
      PutTags(mm_unlink_seg(s, nextbp), bp,
              PACK(size + GET_SIZE(s.mem, HDRP(nextbp)), 0)),
      bp, get_segid(size + GET_SIZE(s.mem, HDRP(nextbp)))), bp)
  ELSE IF prev_alloc = 0 /\ next_alloc = 1 THEN
    Returning(push_front_seg(
      PutHeaderOfPrev(
        PutFooter(mm_unlink_seg(s, prevbp), bp,
                  PACK(size + GET_SIZE(s.mem, HDRP(prevbp)), 0)),
        bp, PACK(size + GET_SIZE(s.mem, HDRP(prevbp)), 0)),
      prevbp, get_segid(size + GET_SIZE(s.mem, HDRP(prevbp)))), prevbp)
  ELSE
    Returning(push_front_seg(
      PutFooterOfNext(
        PutHeaderOfPrev(
          UnlinkNextBlock_seg(
            mm_unlink_seg(Touch(s, FTRP(s.mem, nextbp), 4), prevbp), bp),
          bp, PACK(size + GET_SIZE(s.mem, HDRP(prevbp))
                        + GET_SIZE(s.mem, FTRP(s.mem, nextbp)), 0)),
        bp, PACK(size + GET_SIZE(s.mem, HDRP(prevbp))
                      + GET_SIZE(s.mem, FTRP(s.mem, nextbp)), 0)),
      prevbp, get_segid(size + GET_SIZE(s.mem, HDRP(prevbp))
                             + GET_SIZE(s.mem, FTRP(s.mem, nextbp)))), prevbp)

coalesce_at_seg(s, bp, prevbp, nextbp) ==
  coalesce_case_seg(
    Touch(Touch(Touch(Touch(s, bp - DSIZE, 4), HDRP(prevbp), 4),
                FTRP(s.mem, prevbp), 4), HDRP(nextbp), 4),
    bp, prevbp, nextbp,
    GET_ALLOC(s.mem, FTRP(s.mem, prevbp)),
    GET_ALLOC(s.mem, HDRP(nextbp)),
    GET_SIZE(s.mem, HDRP(bp)))

coalesce_seg(s, bp) ==
  coalesce_at_seg(s, bp, PREV_BLKP(s.mem, bp), NEXT_BLKP(s.mem, bp))

\* extend_heap once mem_sbrk has returned in s.ret
extended_seg(s, size) ==
  IF s.ret < 0 THEN Returning(s, NULL)
  ELSE coalesce_seg(PutEpilogue(PutTags(s, s.ret, PACK(size, 0)), s.ret), s.ret)

extend_heap_seg(s, words) ==
  extended_seg(mem_sbrk(s, EvenBytes(words)), EvenBytes(words))

\* find_fit (FIRST_FIT): the loops from list id, node bp on; seen are the
\* nodes of list id visited
RECURSIVE find_fit_loop_seg(_, _, _, _, _)
find_fit_loop_seg(s, asize, id, bp, seen) ==
  IF id >= SEG_SIZE THEN Returning(s, NULL)
  ELSE IF bp = NULL THEN
    find_fit_loop_seg(s, asize, id + 1,
                      IF id + 1 < SEG_SIZE THEN get_rootd(s, id + 1) ELSE NULL, {})
  ELSE IF bp \in seen THEN [s EXCEPT !.hung = TRUE, !.ret = NULL]
  ELSE IF asize <= GET_SIZE(s.mem, HDRP(bp)) THEN Returning(Touch(s, HDRP(bp), 4), bp)
  ELSE find_fit_loop_seg(Touch(Touch(s, HDRP(bp), 4), bp, 8), asize, id,
                         NEXT(s.mem, bp), seen \cup {bp})

find_fit_seg(s, asize) ==
  find_fit_loop_seg(s, asize, get_segid(asize), get_rootd(s, get_segid(asize)), {})

\* find_fit (BEST_FIT): the loops from list id, node bp on
RECURSIVE find_best_loop_seg(_, _, _, _, _, _)
find_best_loop_seg(s, asize, id, bp, seen, min_bp) ==
  IF id >= SEG_SIZE THEN Returning(s, min_bp)
  ELSE IF bp = NULL THEN
    find_best_loop_seg(s, asize, id + 1,
                       IF id + 1 < SEG_SIZE THEN get_rootd(s, id + 1) ELSE NULL, {},
                       min_bp)
  ELSE IF bp \in seen THEN [s EXCEPT !.hung = TRUE, !.ret = NULL]
  ELSE find_best_loop_seg(Touch(Touch(s, HDRP(bp), 4), bp, 8), asize, id,
                          NEXT(s.mem, bp), seen \cup {bp},
                          IF asize <= GET_SIZE(s.mem, HDRP(bp))
                               /\ GET_SIZE(s.mem, HDRP(bp)) < UINT_MAX
                          THEN bp ELSE min_bp)

find_fit_best_seg(s, asize) ==
  find_best_loop_seg(s, asize, get_segid(asize), get_rootd(s, get_segid(asize)), {},
                     NULL)

\* place, the split: the remainder goes to the list of segid
place_rem_seg(s, rem, remsize, segid) ==
  push_front_seg(PutTags(s, rem, PACK(remsize, 0)), rem, segid)

\* bp = NEXT_BLKP(bp); ..; segid = get_segid(asize);
place_split_seg(s, bp, remsize, asize) ==
  place_rem_seg(s, NEXT_BLKP(s.mem, bp), remsize, get_segid(asize))

place_sized_seg(s, bp, asize, csize) ==
  IF Slack(csize, asize)
  THEN place_split_seg(mm_unlink_seg(PutTags(s, bp, PACK(asize, 1)), bp), bp,
                       csize - asize, asize)
  ELSE mm_unlink_seg(PutTags(s, bp, PACK(csize, 1)), bp)

place_seg(s, bp, asize) ==
  place_sized_seg([Touch(s, HDRP(bp), 4) EXCEPT !.csize = GET_SIZE(s.mem, HDRP(bp))],
                  bp, asize, GET_SIZE(s.mem, HDRP(bp)))

(***************************************************************************)
(* mm_work.c: the API                                                      *)
(***************************************************************************)
\* the 16 PUT_8(.., 0) of mm_init: the root slots
PutSlots(s, h) ==
  [Touch(s, h, 16 * DSIZE) EXCEPT !.mem = [x \in h .. h + 16 * DSIZE - 1 |-> 0] @@ @]

\* mm_init once mem_sbrk(18*DSIZE) has returned h
init_at_seg(s, h) ==
  IF h = SbrkFailed THEN [s EXCEPT !.heap_listp = SbrkFailed]
  ELSE extend_heap_seg(
         root_init(
           [sPUT(sPUT(sPUT(sPUT(PutSlots([s EXCEPT !.start_root = h], h),
                                h + DSIZE * 16, 0),
                           h + DSIZE * 16 + WSIZE, PACK(OVERHEAD, 1)),
                      h + DSIZE * 17, PACK(OVERHEAD, 1)),
                 h + DSIZE * 17 + WSIZE, PACK(0, 1))
              EXCEPT !.heap_listp = h + DSIZE * 17]),
         CHUNKSIZE_seg \div WSIZE)

initialised_seg(s) == init_at_seg(s, s.ret)

mm_init_seg(s) == initialised_seg(mem_sbrk(s, 18 * DSIZE))

\* if (heap_listp == NULL) mm_init();
lazy_init_seg(s) == IF s.heap_listp = NULL THEN mm_init_seg(s) ELSE s

\* the adjusted block size of mm_malloc
AdjustedSize_seg(size) ==
  IF size <= QSIZE THEN QSIZE + OVERHEAD
  ELSE IF size <= 449 /\ size >= 448 THEN 512
  ELSE DSIZE * ((size + OVERHEAD + (DSIZE - 1)) \div DSIZE)

malloc_extended_seg(s, asize) ==
  IF s.ret = NULL THEN s ELSE Returning(place_seg(s, s.ret, asize), s.ret)

malloc_found_seg(s, asize) ==
  IF Stopped(s) THEN s
  ELSE IF s.ret # NULL
    THEN [place_seg(s, s.ret, asize) EXCEPT !.ret = s.ret, !.fit = TRUE]
  ELSE malloc_extended_seg(extend_heap_seg(s, MAX(asize, CHUNKSIZE_seg) \div WSIZE), asize)

malloc_sized_seg(s, asize) ==
  malloc_found_seg([find_fit_seg(s, asize) EXCEPT !.asize = asize], asize)

malloc_inited_seg(s, size) ==
  IF size <= 0 THEN Returning(s, NULL) ELSE malloc_sized_seg(s, AdjustedSize_seg(size))

mm_malloc_seg(s, size) == malloc_inited_seg(lazy_init_seg(s), size)

\* mm_malloc of the build with BEST_FIT
mm_malloc_best_seg(s, size) ==
  IF size <= 0 THEN Returning(lazy_init_seg(s), NULL)
  ELSE malloc_found_seg([find_fit_best_seg(lazy_init_seg(s), AdjustedSize_seg(size))
                           EXCEPT !.asize = AdjustedSize_seg(size)],
                        AdjustedSize_seg(size))

free_sized_seg(s, ptr, size) == coalesce_seg(PutTags(s, ptr, PACK(size, 0)), ptr)

mm_free_seg(s, ptr) ==
  IF ptr = NULL THEN s
  ELSE free_sized_seg(lazy_init_seg(Touch(s, HDRP(ptr), 4)), ptr,
                      GET_SIZE(s.mem, HDRP(ptr)))

\* mm_realloc after mm_malloc: oldsize = GET_SIZE(HDRP(oldptr)), the whole block
realloc_copy_seg(s, oldptr, size, oldsize) ==
  IF Stopped(s) THEN s
  ELSE IF s.ret = NULL THEN [s EXCEPT !.ret = 0, !.path = "fail"]
  ELSE [mm_free_seg(memcpy(Touch(s, HDRP(oldptr), 4), s.ret, oldptr,
                           IF size < oldsize THEN size ELSE oldsize), oldptr)
          EXCEPT !.ret = s.ret, !.path = "copy"]

realloc_new_seg(s, oldptr, size) ==
  realloc_copy_seg(s, oldptr, size, GET_SIZE(s.mem, HDRP(oldptr)))

mm_realloc_seg(s, oldptr, size) ==
  IF size = 0 THEN [mm_free_seg(s, oldptr) EXCEPT !.ret = NULL, !.path = "free"]
  ELSE IF oldptr = NULL THEN [mm_malloc_seg(s, size) EXCEPT !.path = "malloc"]
  ELSE realloc_new_seg(mm_malloc_seg(s, size), oldptr, size)

calloc_sized_seg(s, t) == calloc_zero(mm_malloc_seg(lazy_init_seg(s), t), t)

mm_calloc_seg(s, nmemb, size) == calloc_sized_seg(s, Num(Times(nmemb, size)))

\* the arguments the caller passes to zeroed allocation: 1*17, 0*8, 2*50,
\* (2^61+1)*8 and 2^32*2^32
CallocArgs ==
  {<<SizeT(0, 1), SizeT(0, 17)>>, <<SizeT(0, 0), SizeT(0, 8)>>,
   <<SizeT(0, 2), SizeT(0, 50)>>, <<SizeT(536870912, 1), SizeT(0, 8)>>,
   <<SizeT(1, 0), SizeT(1, 0)>>}

\* and to the zeroed allocation of mm_work.c: 1*17 and (2^61+1)*8
SegCallocArgs ==
  {<<SizeT(0, 1), SizeT(0, 17)>>, <<SizeT(536870912, 1), SizeT(0, 8)>>}

(***************************************************************************)
(* The heap as mm_checkheap walks it: from the prologue by header sizes    *)
(***************************************************************************)
Block(m, bp) ==
  [bp |-> bp, size |-> GET_SIZE(m, HDRP(bp)), alloc |-> GET_ALLOC(m, HDRP(bp)),
   hdr |-> GET(m, HDRP(bp)), ftr |-> GET(m, FTRP(m, bp))]

\* the walk stops at bp: a header of size 0, or a header outside the region
WalkStops(m, b, bp) ==
  bp - WSIZE < env.base \/ bp > b \/ GET_SIZE(m, HDRP(bp)) = 0

\* the blocks from bp on
RECURSIVE WalkFrom(_, _, _)
WalkFrom(m, b, bp) ==
  IF WalkStops(m, b, bp) THEN << >>
  ELSE <<Block(m, bp)>> \o WalkFrom(m, b, NEXT_BLKP(m, bp))

\* where the walk ends
RECURSIVE WalkEnd(_, _, _)
WalkEnd(m, b, bp) ==
  IF WalkStops(m, b, bp) THEN bp ELSE WalkEnd(m, b, NEXT_BLKP(m, bp))

Inited == heap_listp # NULL /\ heap_listp # SbrkFailed

\* the blocks after the prologue
Blocks == IF Inited THEN WalkFrom(mem, brk, heap_listp + DSIZE) ELSE << >>

FreeOf(w) == {<<w[i].bp - WSIZE, w[i].size>> : i \in {j \in DOMAIN w : w[j].alloc = 0}}

\* the byte ranges <<first, size>> of the free blocks
FreeRanges == FreeOf(Blocks)

\* a list from bp by next links
RECURSIVE ListFrom(_, _, _)
ListFrom(m, bp, seen) ==
  IF bp = NULL \/ bp \in seen THEN << >>
  ELSE <<bp>> \o ListFrom(m, NEXT(m, bp), seen \cup {bp})

\* the free list of mm.c from root, the root-slot node left out
FreeList == SelectSeq(ListFrom(mem, root, {}), LAMBDA bp : bp # env.base)

(***************************************************************************)
(* The caller                                                              *)
(***************************************************************************)
\* what a call leaves: the value it returns, or that it does not return,
\* and the heap
Outcome(s) ==
  <<s.ret, s.fault, s.hung, s.mem, s.brk, s.heap_listp, s.root, s.roots, s.start_root>>

\* the pattern the caller writes: byte i of a payload
Pat(i) == 1 + (i % 100)

HoldsPattern(m, p, n) == \A i \in 0 .. n - 1 : p + i \in DOMAIN m /\ m[p + i] = Pat(i)

NoCall ==
  [op |-> "none", ptr |-> NULL, size |-> 0, ret |-> NULL, oob |-> FALSE, fault |-> FALSE,
   hung |-> FALSE, listBefore |-> {},
   sbrks |-> 0, sbrkFail |-> FALSE, path |-> "none", fit |-> FALSE, asize |-> 0,
   csize |-> 0, zptr |-> NULL, zlen |-> 0, same |-> TRUE, wasInited |-> FALSE,
   plen |-> 0, overflow |-> FALSE, freeBefore |-> {}, pair |-> FALSE, oldBlock |-> 0,
   brkBefore |-> 0, twin |-> TRUE, nextBlock |-> 0,
   prevFree |-> 0, nextFree |-> 0, tagsAtCall |-> {}, listAtCall |-> {},
   classAtCall |-> {}]

\* the record of a call: r is the machine when the call returns
Called(op, ptr, size, r) ==
  [NoCall EXCEPT
     !.op = op, !.ptr = ptr, !.size = size, !.ret = r.ret, !.oob = r.oob,
     !.fault = r.fault, !.hung = r.hung, !.sbrks = r.sbrks, !.sbrkFail = r.sbrkFail, !.path = r.path,
     !.fit = r.fit, !.asize = r.asize, !.csize = r.csize, !.zptr = r.zptr,
     !.zlen = r.zlen,
     !.same = (r.mem = mem /\ r.brk = brk /\ r.heap_listp = heap_listp
               /\ r.root = root /\ r.roots = roots /\ r.start_root = start_root),
     !.wasInited = Inited,
     !.freeBefore = FreeRanges,
     !.listBefore = {FreeList[i] : i \in DOMAIN FreeList},
     !.brkBefore = brk]

\* a call that returns leaves the machine it returns with; one that does
\* not return leaves nothing to look at
Commit(r) ==
  /\ IF Stopped(r)
     THEN UNCHANGED <<mem, brk, heap_listp, root, roots, start_root>>
     ELSE /\ mem' = r.mem
          /\ brk' = r.brk
          /\ heap_listp' = r.heap_listp
          /\ root' = r.root
          /\ roots' = r.roots
          /\ start_root' = r.start_root
  /\ calls' = calls + 1
  /\ UNCHANGED env

\* the last call returned
Completed == ~last.hung /\ ~last.fault

CanCall == calls < MaxCalls /\ Completed

\* p with what the caller knows of it
Grant(l, p, size, plen) ==
  IF p = NULL THEN l ELSE (p :> [size |-> size, plen |-> plen]) @@ l

Drop(l, p) == [x \in DOMAIN l \ {p} |-> l[x]]

\* before the first call, with one of the providers of E
Start(E) ==
  /\ mem = [x \in {} |-> 0]
  /\ env \in E
  /\ brk = env.base
  /\ heap_listp = NULL
  /\ root = NULL
  /\ roots = [i \in 0 .. SEG_SIZE - 1 |-> NULL]
  /\ start_root = NULL
  /\ live = [x \in {} |-> 0]
  /\ last = NoCall
  /\ calls = 0

Init == Start(Envs)

Inited_mm(r) == Commit(r) /\ last' = Called("init", NULL, 0, r) /\ UNCHANGED live

\* mm_init(), the driver's first call
MmInit == CanCall /\ heap_listp = NULL /\ Inited_mm(mm_init(Cur))

Malloced(size, r) ==
  /\ Commit(r)
  /\ last' = Called("malloc", NULL, size, r)
  /\ live' = IF Stopped(r) THEN live ELSE Grant(live, r.ret, size, 0)

Malloc(size) ==
  /\ CanCall /\ Cardinality(DOMAIN live) < MaxLive
  /\ Malloced(size, mm_malloc(Cur, size))

\* the size of the block the tag at address a is of, when that block is
\* free, else 0
FreeSizeAt(a) == IF GET_ALLOC(mem, a) = 0 THEN GET_SIZE(mem, a) ELSE 0

\* the payload address, header and footer of the blocks of a walk
Tags(w) == {<<w[i].bp, w[i].hdr, w[i].ftr>> : i \in DOMAIN w}

Freed(p, r) ==
  /\ Commit(r)
  /\ last' = [Called("free", p, 0, r) EXCEPT
                !.pair = (last.op = "malloc" /\ last.ret = p),
                !.oldBlock = GET_SIZE(mem, HDRP(p)),
                !.freeBefore = last.freeBefore,
                !.listBefore = last.listBefore,
                !.wasInited = last.wasInited,
                !.brkBefore = last.brkBefore,
                !.prevFree = FreeSizeAt(p - DSIZE),
                !.nextFree = FreeSizeAt(HDRP(NEXT_BLKP(mem, p))),
                !.tagsAtCall = Tags(Blocks),
                !.listAtCall = {FreeList[i] : i \in DOMAIN FreeList}]
  /\ live' = IF Stopped(r) THEN live ELSE Drop(live, p)

Free(p) == CanCall /\ p \in DOMAIN live /\ Freed(p, mm_free(Cur, p))

\* the call the specification of realloc names for a null pointer and for
\* size 0, made in place of mm_realloc(p, size)
Twin(p, size) ==
  IF env \in SegEnvs
  THEN IF size = 0 THEN Returning(mm_free_seg(Cur, p), NULL) ELSE mm_malloc_seg(Cur, size)
  ELSE IF size = 0 THEN Returning(mm_free(Cur, p), NULL) ELSE mm_malloc(Cur, size)

Realloced(p, size, plen, r) ==
  /\ Commit(r)
  /\ last' = [Called("realloc", p, size, r) EXCEPT
                !.twin = ((p = NULL \/ size = 0) => Outcome(r) = Outcome(Twin(p, size))),
                !.plen = IF p # NULL /\ HoldsPattern(mem, p, plen) THEN plen ELSE 0,
                !.oldBlock = IF p = NULL THEN 0 ELSE GET_SIZE(mem, HDRP(p)),
                !.nextBlock = IF p = NULL THEN 0
                              ELSE GET_SIZE(mem, HDRP(NEXT_BLKP(mem, p)))]
  /\ live' = IF Stopped(r) THEN live
             ELSE IF size = 0 THEN Drop(live, p)
             ELSE IF r.ret = NULL THEN live
             ELSE Grant(Drop(live, p), r.ret, size, IF size < plen THEN size ELSE plen)

Realloc(p, size) ==
  /\ CanCall /\ (p = NULL \/ p \in DOMAIN live)
  /\ p = NULL => Cardinality(DOMAIN live) < MaxLive
  /\ Realloced(p, size, IF p = NULL THEN 0 ELSE live[p].plen, mm_realloc(Cur, p, size))

Calloced(nmemb, size, r) ==
  /\ Commit(r)
  /\ last' = [Called("calloc", NULL, Num(Times(nmemb, size)), r) EXCEPT
                !.overflow = Overflows(nmemb, size)]
  /\ live' = IF Stopped(r) THEN live ELSE Grant(live, r.ret, Num(Times(nmemb, size)), 0)

Calloc(nmemb, size) ==
  /\ CanCall /\ Cardinality(DOMAIN live) < MaxLive
  /\ Small(Times(nmemb, size))
  /\ Calloced(nmemb, size, mm_calloc(Cur, nmemb, size))

\*  the caller fills the bytes it asked for, just after it got them
Write(p) ==
  /\ Completed /\ p \in DOMAIN live /\ last.ret = p
  /\ live[p].plen < live[p].size /\ live[p].size <= MaxPat
  /\ mem' = [x \in p .. p + live[p].size - 1 |-> Pat(x - p)] @@ mem
  /\ live' = [live EXCEPT ![p].plen = live[p].size]
  /\ last' = [NoCall EXCEPT !.op = "write", !.ptr = p, !.ret = p]
  /\ UNCHANGED <<brk, heap_listp, root, roots, start_root, env, calls>>

Next ==
  \/ MmInit
  \/ \E size \in Sizes \cup {0} : Malloc(size)
  \/ \E p \in DOMAIN live : Free(p)
  \/ \E p \in DOMAIN live, size \in ReSizes \cup {0} : Realloc(p, size)
  \/ \E size \in {17} : Realloc(NULL, size)
  \/ \E args \in CallocArgs : Calloc(args[1], args[2])
  \/ \E p \in DOMAIN live : Write(p)

Spec == Init /\ [][Next]_vars

(***************************************************************************)
(* Sequences of allocate and release calls only                            *)
(***************************************************************************)
CanPairCall == calls < MaxPairCalls /\ Completed

PairInit == CanPairCall /\ heap_listp = NULL /\ Inited_mm(mm_init(Cur))

PairMalloc(size) ==
  /\ CanPairCall /\ Cardinality(DOMAIN live) < MaxLive
  /\ Malloced(size, mm_malloc(Cur, size))

PairFree(p) == CanPairCall /\ p \in DOMAIN live /\ Freed(p, mm_free(Cur, p))

PairNext ==
  \/ PairInit
  \/ \E size \in PairSizes \cup {0} : PairMalloc(size)
  \/ \E p \in DOMAIN live : PairFree(p)

PairSpec == Init /\ [][PairNext]_vars

(***************************************************************************)
(* Allocate and release calls with requests larger than a chunk            *)
(***************************************************************************)
GrowSizes == {1, 2000, 3000}

\* room for the first chunk, one extension by a request and one by a chunk
GrowEnvs ==
  [base : {4096}, cap : {7136}, baseHi : {0}, lowWord : {0}, fill : {0},
   strict : {FALSE}]

GrowStart == Start(GrowEnvs)

GrowNext ==
  \/ PairInit
  \/ \E size \in GrowSizes : PairMalloc(size)
  \/ \E p \in DOMAIN live : PairFree(p)

GrowSpec == GrowStart /\ [][GrowNext]_vars

\* the requests near the ends of size_t: 2^64 - 1, 2^64 - 15, 2^32 + 10 and
\* 2^32 - 8
WideSizes ==
  {<<255, 255, 255, 255, 255, 255, 255, 255>>,
   <<241, 255, 255, 255, 255, 255, 255, 255>>,
   <<10, 0, 0, 0, 1, 0, 0, 0>>,
   <<248, 255, 255, 255, 0, 0, 0, 0>>}

WideMalloc(a) ==
  /\ CanPairCall /\ Cardinality(DOMAIN live) < MaxLive
  /\ Malloced(Saturated(a), mm_malloc_wide(Cur, a))

WideNext == GrowNext \/ \E a \in WideSizes : WideMalloc(a)

WideSpec == GrowStart /\ [][WideNext]_vars

(***************************************************************************)
(* The caller of mm_work.c                                                 *)
(***************************************************************************)
CanSegCall == calls < MaxSegCalls /\ Completed

SegInit == Start(SegEnvs)

MmInit_seg == CanSegCall /\ heap_listp = NULL /\ Inited_mm(mm_init_seg(Cur))

Malloc_seg(size) ==
  /\ CanSegCall /\ Cardinality(DOMAIN live) < MaxLive
  /\ Malloced(size, mm_malloc_seg(Cur, size))

Free_seg(p) == CanSegCall /\ p \in DOMAIN live /\ Freed(p, mm_free_seg(Cur, p))

Realloc_seg(p, size) ==
  /\ CanSegCall /\ p \in DOMAIN live
  /\ Realloced(p, size, live[p].plen, mm_realloc_seg(Cur, p, size))

Calloc_seg(nmemb, size) ==
  /\ CanSegCall /\ Cardinality(DOMAIN live) < MaxLive
  /\ Small(Times(nmemb, size))
  /\ Calloced(nmemb, size, mm_calloc_seg(Cur, nmemb, size))

\* the sizes a caller may write where a header would be
ForgedSizes == {3008}

\* the caller fills 40 bytes it asked for with data of its own: at p a
\* pointer to p + 17, at p + 13 a word, zeros elsewhere
Forge(p, size) ==
  /\ CanSegCall /\ p \in DOMAIN live /\ last.ret = p /\ last.op = "malloc"
  /\ live[p].size = 40 /\ live[p].plen = 0
  /\ mem' = PUT_8add(PUT([x \in p .. p + 39 |-> 0] @@ mem, p + 13, size), p, p + 17)
  /\ live' = [live EXCEPT ![p].plen = 40]
  /\ last' = [NoCall EXCEPT !.op = "forge", !.ptr = p, !.ret = p]
  /\ UNCHANGED <<brk, heap_listp, root, roots, start_root, env, calls>>

SegNext ==
  \/ MmInit_seg
  \/ \E size \in SegSizes \cup {0} : Malloc_seg(size)
  \/ \E p \in DOMAIN live : Free_seg(p)
  \/ \E p \in DOMAIN live, size \in SegReSizes : Realloc_seg(p, size)
  \/ \E args \in SegCallocArgs : Calloc_seg(args[1], args[2])
  \/ \E p \in DOMAIN live : Write(p)
  \/ \E p \in DOMAIN live, size \in ForgedSizes : Forge(p, size)

SegSpec == SegInit /\ [][SegNext]_vars

(***************************************************************************)
(* Properties                                                              *)
(***************************************************************************)
\* the root slots of mm_work.c, which end its lists
Sentinels == {start_root + i * 2 * DSIZE : i \in 0 .. SEG_SIZE - 1}

\* the blocks reachable from class head i by next links
ClassList(i) ==
  SelectSeq(ListFrom(mem, roots[i], {}), LAMBDA bp : bp \notin Sentinels)

\* the places <<class, position>> where block b is found
Occurrences(b) ==
  UNION {{<<i, k>> : k \in {j \in DOMAIN ClassList(i) : ClassList(i)[j] = b}} :
           i \in 0 .. SEG_SIZE - 1}

\* the payload addresses of the free blocks of the heap
FreeBlocks == {r[1] + WSIZE : r \in FreeRanges}

\* C1: in mm_work.c, after every completed call, the blocks reachable from
\* the 8 class heads by next links (root slots left out) are exactly the
\* free blocks of the heap: each free block is found once, from one head,
\* and no allocated block is found.
C1_ListsHoldFreeBlocks ==
  (Inited /\ Completed) =>
    /\ \A b \in FreeBlocks : Cardinality(Occurrences(b)) = 1
    /\ \A i \in 0 .. SEG_SIZE - 1 : \A k \in DOMAIN ClassList(i) :
         ClassList(i)[k] \in FreeBlocks

\* C2: in mm.c, when resize(p, size) of a live p with size > 0 returns a
\* non-null q, the block at q is allocated and its payload capacity (block
\* size - 8) is at least size, whichever path resize took.
C2_ResizeCapacity ==
  (Completed /\ last.op = "realloc" /\ last.ptr # NULL /\ last.size > 0
     /\ last.ret # NULL) =>
    /\ GET_ALLOC(mem, HDRP(last.ret)) = 1
    /\ GET_SIZE(mem, HDRP(last.ret)) - OVERHEAD >= last.size

\* the adjusted size as the specification states it
SpecAsize(size) ==
  IF size <= 16 THEN 24
  ELSE IF size \in {448, 449} THEN 512
  ELSE 8 * ((size + 8 + 7) \div 8)

C4_HeapWalk ==
  (Inited /\ Completed) =>
    /\ GET(mem, heap_listp - WSIZE) = PACK(OVERHEAD, 1)
    /\ GET(mem, heap_listp) = PACK(OVERHEAD, 1)
    /\ \A i \in DOMAIN Blocks :
         /\ Blocks[i].hdr = Blocks[i].ftr
         /\ Blocks[i].size % 8 = 0
         /\ Blocks[i].size >= 24
    /\ WalkEnd(mem, brk, heap_listp + DSIZE) = brk
    /\ GET(mem, brk - WSIZE) = PACK(0, 1)

\* C5: in mm.c, after every completed call of a sequence of allocate and
\* release calls, no two physically adjacent blocks are both free.
C5_NoAdjacentFree ==
  \A i \in DOMAIN Blocks :
    i + 1 \in DOMAIN Blocks => ~(Blocks[i].alloc = 0 /\ Blocks[i + 1].alloc = 0)

\* a release has merged its block with the free blocks on both sides, in a
\* heap that an allocation extended
C5_MergedBothSides ==
  /\ Completed /\ last.op = "free"
  /\ brk > env.base + 4 * DSIZE + CHUNKSIZE
  /\ \E i \in DOMAIN Blocks :
       /\ Blocks[i].alloc = 0
       /\ Blocks[i].bp < last.ptr
       /\ Blocks[i].bp + Blocks[i].size > last.ptr + last.oldBlock

C7_ResizeKeepsPattern ==
  (Completed /\ last.op = "realloc" /\ last.ptr # NULL /\ last.plen > 0
     /\ last.size >= last.plen /\ last.ret # NULL) =>
    HoldsPattern(mem, last.ret, last.plen)

\* C8: zeroed_allocate(n, size) whose product overflows size_t returns
\* null, does not call the provider and changes nothing in the heap.
C8_OverflowReturnsNull ==
  (last.op = "calloc" /\ last.overflow /\ last.wasInited) =>
    (Completed /\ last.ret = NULL /\ last.sbrks = 0 /\ last.same)

C10_ZeroedAllocate ==
  (last.op = "calloc" /\ ~last.overflow /\ last.wasInited) =>
    /\ Completed
    /\ (last.ret = NULL => last.zlen = 0 /\ last.same)
    /\ (last.ret # NULL =>
          /\ \A i \in 0 .. last.size - 1 :
               last.ret + i \in DOMAIN mem /\ mem[last.ret + i] = 0
          /\ last.zptr = last.ret
          /\ last.zlen <= GET_SIZE(mem, HDRP(last.ret)) - OVERHEAD)

\* C11: in mm.c, resize(p, size) with size > 0 and
\* max(16, align8(size)) <= (block size of p) - 8 returns p and writes
\* nothing: memory, the break and the list head are as before the call.
C11_ResizeFitsInPlace ==
  (last.op = "realloc" /\ last.ptr # NULL /\ last.size > 0
     /\ MAX(QSIZE, 8 * ((last.size + 7) \div 8)) <= last.oldBlock - OVERHEAD) =>
    (Completed /\ last.ret = last.ptr /\ last.same)

\* a resize to 24 bytes of a block that holds 2000: the excess is not split off
C11_ShrinkKept ==
  /\ Completed /\ last.op = "realloc" /\ last.ptr # NULL /\ last.size = 24
  /\ last.oldBlock = 2008 /\ last.ret = last.ptr
  /\ GET_SIZE(mem, HDRP(last.ptr)) = 2008

\* C12: in mm_work.c, after every completed call, every block linked in
\* the list of class i has a size that get_segid maps to i.
C12_ListedInClassOfSize ==
  (Inited /\ Completed) =>
    \A i \in 0 .. SEG_SIZE - 1 : \A k \in DOMAIN ClassList(i) :
      get_segid(GET_SIZE(mem, HDRP(ClassList(i)[k]))) = i

\* C13: in both allocators, with an 8-aligned region base, every non-null
\* pointer p that allocate, resize or zeroed_allocate returns is 8-aligned
\* and satisfies low() <= p < high(), the region being [env.base, brk).
C13_ReturnedInHeapAligned ==
  (Completed /\ last.op \in {"malloc", "realloc", "calloc"} /\ last.ret # NULL) =>
    /\ last.ret % 8 = 0
    /\ env.base <= last.ret
    /\ last.ret < brk

\* C14: in mm.c, resize(null, s) returns what allocate(s) returns from the
\* same heap and leaves the heap allocate(s) leaves; resize(p, 0) returns
\* null and leaves the heap release(p) leaves; allocate(0) returns null and
\* changes nothing in an initialised heap.
C14_DegenerateArguments ==
  /\ (last.op = "realloc" /\ (last.ptr = NULL \/ last.size = 0)) => last.twin
  /\ (last.op = "realloc" /\ last.size = 0) => (Completed => last.ret = NULL)
  /\ (last.op = "malloc" /\ last.size = 0) =>
       (Completed /\ last.ret = NULL /\ (last.wasInited => last.same))

\* resize(p, 0) has released a live block of a heap that holds another
C14_DegenerateCalls ==
  /\ Completed /\ last.op = "realloc" /\ last.ptr # NULL /\ last.size = 0
  /\ last.path = "free" /\ last.ret = NULL /\ FreeRanges # {} /\ DOMAIN live # {}

\* C15: in mm_work.c as in mm.c, resize(p, size) of a live p whose block
\* holds the request (max(16, align8(size)) <= block size - 8) returns p
\* itself, the block at p still allocated, without the allocate, copy and
\* release of the fallback.
C15_SegResizeInPlace ==
  (Completed /\ env \in SegEnvs /\ last.op = "realloc" /\ last.ptr # NULL
     /\ last.size > 0
     /\ MAX(QSIZE, 8 * ((last.size + 7) \div 8)) <= last.oldBlock - OVERHEAD) =>
    /\ last.ret = last.ptr
    /\ GET_ALLOC(mem, HDRP(last.ptr)) = 1
    /\ last.path # "copy"

\* the blocks the caller holds: <<first byte, size>> by the header
LiveBlocks == {<<p - WSIZE, GET_SIZE(mem, HDRP(p))>> : p \in DOMAIN live}

Overlap(a, b) == a[1] < b[1] + b[2] /\ b[1] < a[1] + a[2]

\* C16: in mm_work.c, after every completed call of a sequence of allocate
\* and release calls, the blocks of distinct live allocations are pairwise
\* disjoint, and allocate returns a block that was free: not one inside a
\* free block of the heap walk or inside another block.
C16_LiveBlocksDisjoint ==
  (Inited /\ Completed /\ last.op \in {"malloc", "free"}) =>
    /\ \A a \in LiveBlocks : \A b \in LiveBlocks : a # b => ~Overlap(a, b)
    /\ \A p \in DOMAIN live : \E i \in DOMAIN Blocks :
         Blocks[i].bp = p /\ Blocks[i].alloc = 1

\* rsize of mm_realloc as the specification states it
SpecRsize(size) == MAX(QSIZE, 8 * ((size + 7) \div 8))

\* C17: in mm.c, when resize(p, size) takes the in-place path, the result
\* tiles the span of p's block and the next block: with at least 24 bytes
\* of slack p's block is (rsize + 8, allocated) and a free remainder of
\* size next_size + oldpay - rsize follows it, at the head of the free
\* list; otherwise p's block is one allocated block of size
\* oldpay + 8 + next_size. The next block itself is no longer in the list.
C17_InPlaceTiles ==
  (Completed /\ last.op = "realloc" /\ last.path \in {"split", "absorb"}) =>
    /\ last.ret = last.ptr
    /\ last.path = "split" =>
         /\ GET(mem, HDRP(last.ptr)) = PACK(SpecRsize(last.size) + OVERHEAD, 1)
         /\ GET(mem, HDRP(NEXT_BLKP(mem, last.ptr)))
              = PACK(last.nextBlock + last.oldBlock - OVERHEAD - SpecRsize(last.size), 0)
         /\ root = NEXT_BLKP(mem, last.ptr)
    /\ last.path = "absorb" =>
         GET(mem, HDRP(last.ptr)) = PACK(last.oldBlock + last.nextBlock, 1)
    /\ GET_SIZE(mem, HDRP(last.ptr)) + (IF last.path = "split" THEN GET_SIZE(mem, HDRP(root)) ELSE 0)
         = last.oldBlock + last.nextBlock

\* place of mm_work.c with its steps in the other order: mm_unlink(bp)
\* first, the tags of the allocated block after it
place_unlinked_seg(s, bp, asize, csize) ==
  IF Slack(csize, asize)
  THEN place_split_seg(PutTags(mm_unlink_seg(s, bp), bp, PACK(asize, 1)), bp,
                       csize - asize, asize)
  ELSE PutTags(mm_unlink_seg(s, bp), bp, PACK(csize, 1))

\* the adjusted sizes of the requests of the callers
PlaceSizes == {24, 48, 3008}

\* C18: in mm_work.c, for every free block bp linked in a class list and
\* every asize <= size(bp), place as written (tags first, mm_unlink after)
\* leaves the heap and the list heads that a place which unlinks bp first
\* leaves.
C18_PlaceOrderHarmless ==
  (Inited /\ Completed /\ env \in SegEnvs) =>
    \A i \in 0 .. SEG_SIZE - 1 : \A k \in DOMAIN ClassList(i) :
      \A asize \in PlaceSizes :
        (ClassList(i)[k] \in FreeBlocks
           /\ asize <= GET_SIZE(mem, HDRP(ClassList(i)[k]))) =>
          Outcome(place_sized_seg(Cur, ClassList(i)[k], asize,
                                  GET_SIZE(mem, HDRP(ClassList(i)[k]))))
            = Outcome(place_unlinked_seg(Cur, ClassList(i)[k], asize,
                                         GET_SIZE(mem, HDRP(ClassList(i)[k]))))

\* C19: in mm_work.c, every allocate, release and resize call returns:
\* the walk of find_fit along a class list never comes back to a node it
\* has visited.
C19_SegCallsReturn ==
  (env \in SegEnvs /\ last.op \in {"malloc", "free", "realloc"}) => ~last.hung

\* C20: in mm_work.c, when some free block of the heap has size >= asize,
\* allocate returns one of the free blocks, of size >= asize, and does not
\* call the provider: high() is as before the call.
C20_SegFitFound ==
  (env \in SegEnvs /\ last.op = "malloc" /\ last.size > 0 /\ last.wasInited
     /\ \E r \in last.freeBefore : r[2] >= AdjustedSize_seg(last.size)) =>
    /\ Completed
    /\ last.sbrks = 0
    /\ brk = last.brkBefore
    /\ \E r \in last.freeBefore :
         r[1] + WSIZE = last.ret /\ r[2] >= AdjustedSize_seg(last.size)

\* the blocks of the tag set t that lie in the span [lo, hi)
TagsWithin(t, lo, hi) == {x \in t : lo <= x[1] /\ x[1] < hi}

\* C21: in mm.c, the coalesce of a release of the block at p returns the
\* payload pointer of the merged block (p when the previous block is
\* allocated, the previous block when it is free); header and footer of the
\* merged block hold (size(p) + sizes of the free neighbours, free); the
\* free neighbours have left the free list, the merged block is its head
\* with prev = null, and the tags of no other block have changed.
C21_CoalesceMerges ==
  (Inited /\ last.op = "free") =>
    /\ Completed
    /\ last.ret = last.ptr - last.prevFree
    /\ GET(mem, HDRP(last.ret)) = PACK(last.prevFree + last.oldBlock + last.nextFree, 0)
    /\ GET(mem, FTRP(mem, last.ret)) = GET(mem, HDRP(last.ret))
    /\ root = last.ret
    /\ PREV(mem, last.ret) = NULL
    /\ {FreeList[i] : i \in DOMAIN FreeList}
         = (last.listAtCall
              \ {last.ptr - last.prevFree, last.ptr + last.oldBlock}) \cup {last.ret}
    /\ (last.nextFree > 0 => last.ptr + last.oldBlock \in last.listAtCall)
    /\ (last.prevFree > 0 => last.ptr - last.prevFree \in last.listAtCall)
    /\ Tags(Blocks) \ TagsWithin(Tags(Blocks), last.ret,
                                  last.ptr + last.oldBlock + last.nextFree)
         = last.tagsAtCall \ TagsWithin(last.tagsAtCall, last.ret,
                                        last.ptr + last.oldBlock + last.nextFree)
    /\ TagsWithin(Tags(Blocks), last.ret, last.ptr + last.oldBlock + last.nextFree)
         = {<<last.ret, GET(mem, HDRP(last.ret)), GET(mem, HDRP(last.ret))>>}

\* a release whose block had a free block before it and an allocated one
\* after it
C21_MergedWithPrevious ==
  /\ Completed /\ last.op = "free" /\ last.prevFree > 0 /\ last.nextFree = 0
  /\ last.ret = last.ptr - last.prevFree /\ DOMAIN live # {}

\* the payload start of the free block that ended the heap before the
\* call, or of the block the extension starts when the last block was
\* allocated
TailStart ==
  IF \E r \in last.freeBefore : r[1] + r[2] = last.brkBefore - WSIZE
  THEN (CHOOSE r \in last.freeBefore : r[1] + r[2] = last.brkBefore - WSIZE)[1] + WSIZE
  ELSE last.brkBefore

\* the sizes of the blocks of walk w from payload address a on, summed
RECURSIVE SizesFrom(_, _)
SizesFrom(w, a) ==
  IF w = << >> THEN 0
  ELSE (IF Head(w).bp >= a THEN Head(w).size ELSE 0) + SizesFrom(Tail(w), a)

\* an allocate on an initialised heap that found no fit and whose
\* extension the provider granted
FitMiss ==
  /\ Completed /\ last.op = "malloc" /\ last.wasInited /\ last.size > 0
  /\ ~last.fit /\ ~last.sbrkFail

\* C22: in mm.c, on a fit miss allocate grows the region by exactly
\* max(asize, chunk_size) bytes, a multiple of 8; the last word of the
\* region is a fresh epilogue header; the new block starts at the old
\* epilogue header, or at the last block when that block was free, and the
\* pointer returned is the payload start of that block, whose span up to
\* the new epilogue is tiled by the blocks placed in it.
C22_ExtensionOnMiss ==
  FitMiss =>
    /\ last.sbrks = 1
    /\ brk - last.brkBefore = MAX(last.asize, CHUNKSIZE)
    /\ (brk - last.brkBefore) % DSIZE = 0
    /\ GET(mem, brk - WSIZE) = PACK(0, 1)
    /\ last.ret = TailStart
    /\ GET_ALLOC(mem, HDRP(last.ret)) = 1
    /\ GET_SIZE(mem, HDRP(last.ret)) >= last.asize
    /\ \E i \in DOMAIN Blocks : Blocks[i].bp = last.ret
    /\ SizesFrom(Blocks, last.ret) = brk - last.ret

\* a fit miss for a request larger than a chunk, with a free last block
C22_GrownByRequest ==
  /\ FitMiss /\ last.asize > CHUNKSIZE /\ last.ret < last.brkBefore
  /\ brk - last.brkBefore = last.asize

\* C23: in mm.c, no API operation reads or writes a word outside the
\* region [low(), high()): the flag a call raises when it uses an address
\* below low() or at or above high() stays down, for every request size
\* and also when find_fit walks the whole free list and finds no fit.
C23_AccessesInRegion ==
  (env \in Envs /\ last.op \in {"init", "malloc", "free"}) => ~last.oob

\* C24: in mm.c, for every request size from 1 to the largest size_t,
\* allocate returns, and returns either null or a block whose payload
\* capacity (the size in its header less the 8 bytes of tags) is at least
\* the size asked for; the header of the block it returns never holds
\* less than size + 8.
C24_NormalizationSound ==
  (last.op = "malloc" /\ last.size > 0) =>
    /\ Completed
    /\ (last.ret # NULL =>
          /\ GET_ALLOC(mem, HDRP(last.ret)) = 1
          /\ GET_SIZE(mem, HDRP(last.ret)) >= last.size + OVERHEAD)

\* the nodes of the free list of mm.c from root, the root-slot node included
ListNodes == ListFrom(mem, root, {})

\* C25: in mm.c, after every completed call of a sequence of allocate and
\* release calls the free list is a consistent doubly-linked list: the
\* head has prev = null, every node is the prev of its next and the next
\* of its prev, and the list ends, with next = null, at the root-slot
\* node that initialization wrote.
C25_ListLinked ==
  (Inited /\ Completed) =>
    /\ ListNodes # << >>
    /\ PREV(mem, root) = NULL
    /\ ListNodes[Len(ListNodes)] = env.base
    /\ NEXT(mem, env.base) = NULL
    /\ \A i \in DOMAIN ListNodes :
         /\ NEXT(mem, ListNodes[i]) # NULL =>
               PREV(mem, NEXT(mem, ListNodes[i])) = ListNodes[i]
         /\ PREV(mem, ListNodes[i]) # NULL =>
               NEXT(mem, PREV(mem, ListNodes[i])) = ListNodes[i]

\* a release has merged its block with the free block after it, which it
\* unlinked from a list of two or more blocks, and has pushed the result in
\* front of the blocks that stayed
C25_UnlinkedInside ==
  /\ Completed /\ last.op = "free" /\ Len(ListNodes) >= 3
  /\ last.prevFree + last.nextFree > 0
  /\ Cardinality(last.listAtCall) >= 2
  /\ root \notin last.listAtCall

(***************************************************************************)
(* The callers of the two allocators built with BEST_FIT                   *)
(***************************************************************************)
BestSizes == {1, 448, 2000}

BestStart == Start(Envs \cup SegEnvs)

\* the nodes <<bp, size>> of sequence l
Sized(l) == {<<l[i], GET_SIZE(mem, HDRP(l[i]))>> : i \in DOMAIN l}

BestMalloced(size, r, class) ==
  /\ Commit(r)
  /\ last' = [Called("malloc", NULL, size, r) EXCEPT !.classAtCall = class]
  /\ live' = IF Stopped(r) THEN live ELSE Grant(live, r.ret, size, 0)

BestMalloc(size) ==
  /\ CanPairCall /\ Cardinality(DOMAIN live) < MaxLive
  /\ BestMalloced(size, mm_malloc_best(Cur, size), Sized(FreeList))

BestMalloc_seg(size) ==
  /\ CanSegCall /\ Cardinality(DOMAIN live) < MaxLive
  /\ BestMalloced(size, mm_malloc_best_seg(Cur, size),
                  Sized(ClassList(get_segid(AdjustedSize_seg(size)))))

\* the calls of the build the heap belongs to
BestNext ==
  \/ env \in Envs /\ PairInit
  \/ \E size \in BestSizes : env \in Envs /\ BestMalloc(size)
  \/ \E p \in DOMAIN live : env \in Envs /\ PairFree(p)
  \/ env \in SegEnvs /\ MmInit_seg
  \/ \E size \in BestSizes : env \in SegEnvs /\ BestMalloc_seg(size)
  \/ \E p \in DOMAIN live : env \in SegEnvs /\ Free_seg(p)

BestSpec == BestStart /\ [][BestNext]_vars

\* the nodes of the starting class that were large enough for the call
Fitting == {x \in last.classAtCall : x[2] >= last.asize}

\* C26: built with BEST_FIT, find_fit(asize) looks only at the list of
\* class_of(asize): allocate finds no fit when that list holds no block of
\* size >= asize, and otherwise takes a block of that list of size >= asize
\* than which no block of the list of size >= asize is smaller.
C26_BestFitInClass ==
  (last.op = "malloc" /\ last.wasInited /\ last.size > 0) =>
    /\ Completed
    /\ last.fit = (Fitting # {})
    /\ last.fit =>
          \E x \in Fitting : x[1] = last.ret /\ \A y \in Fitting : x[2] <= y[2]

====
